---- MODULE Spec2Model ----
(***************************************************************************)
(* Model of naglfar's rendering window (src/src/window.rs): the draw       *)
(* handler that culls and dispatches a display list, the thread-local      *)
(* anchor table ANKERS, and the motion / button-press handlers that        *)
(* hit-test the pointer against it.                                        *)
(*                                                                         *)
(* Lengths are app units (Au): AU_PER_PX of them make one pixel.  An f64   *)
(* pixel quantity v is kept exactly, as the integer v * AU_PER_PX, so that *)
(* the truncating (to_px, `as i32`), the ceiling (ceil_to_px) and the      *)
(* exact (to_f64_px) conversions of the code stay different functions.     *)
(***************************************************************************)
EXTENDS Integers, Sequences, FiniteSets, TLC

\* ------------------------------------------------------------------ bounds
\* Longest display list the layout engine hands to the draw handler.
MaxLen == 2

\* -------------------------------------------------------------- constants
AU_PER_PX == 60
PANGO_SCALE == 1024
DefaultWidth == 800
DefaultHeight == 520

\* ------------------------------------------------------------ conversions
\* Integer division rounding toward zero (Rust `/` on i32, `as i32` on f64).
TruncDiv(a, b) == IF a >= 0 THEN a \div b ELSE -((-a) \div b)

\* Au::to_px: whole pixels, truncating.
to_px(au) == TruncDiv(au, AU_PER_PX)

\* Au::ceil_to_px: whole pixels, rounding up.
ceil_to_px(au) == -((-au) \div AU_PER_PX)

\* Au::to_f64_px: the exact pixel value au / AU_PER_PX, kept as its numerator
\* over the fixed denominator AU_PER_PX.
to_f64_px(au) == au

\* `v as i32` for an f64 v kept as a numerator over AU_PER_PX.
as_i32(v) == TruncDiv(v, AU_PER_PX)

\* css::px2pt followed by pango::units_from_double: px * 3/4 points, then
\* floor(pt * PANGO_SCALE + 1/2), for a pixel value kept as a numerator.
px2pt_units(v) == (2 * v * 3 * PANGO_SCALE + 4 * AU_PER_PX) \div (2 * 4 * AU_PER_PX)

to_pango_font_slant(slant) == IF slant = "Italic" THEN "Italic" ELSE "Normal"

to_pango_font_weight(weight) == IF weight = "Bold" THEN 700 ELSE 400

\* ------------------------------------------------------------ data model
Rect(x, y, w, h) == [x |-> x, y |-> y, width |-> w, height |-> h]

NoFont == [size |-> 0, slant |-> "Normal", weight |-> "Normal"]
Font1 == [size |-> 960, slant |-> "Italic", weight |-> "Normal"]
Font2 == [size |-> 600, slant |-> "Normal", weight |-> "Bold"]

SolidColor(rect) == [kind |-> "SolidColor", rect |-> rect, url |-> "", font |-> NoFont]
Image(rect) == [kind |-> "Image", rect |-> rect, url |-> "", font |-> NoFont]
Text(rect, font) == [kind |-> "Text", rect |-> rect, url |-> "", font |-> font]
Anker(url, rect) == [kind |-> "Anker", rect |-> rect, url |-> url, font |-> NoFont]

\* The display commands the layout engine may emit: a page background two
\* and a half pixels high, a strip half a pixel high, an image on the second
\* pixel row, a text starting half a pixel above the origin and a text in
\* another font on the second row, two anchors on the same rectangle with
\* different targets, an anchor that shares an edge with them, and an anchor
\* half a pixel high.
Commands ==
    { SolidColor(Rect(0, 0, 120, 150)),
      SolidColor(Rect(0, 120, 120, 30)),
      Image(Rect(0, 60, 60, 60)),
      Text(Rect(0, -30, 60, 60), Font1),
      Text(Rect(0, 60, 60, 60), Font2),
      Anker("a", Rect(0, 0, 60, 60)),
      Anker("b", Rect(0, 0, 60, 60)),
      Anker("b", Rect(30, 60, 30, 60)),
      Anker("a", Rect(0, 120, 60, 30)) }

RECURSIVE SeqsOfLen(_, _)
SeqsOfLen(S, n) ==
    IF n = 0 THEN { <<>> }
    ELSE { Append(s, c) : s \in SeqsOfLen(S, n - 1), c \in S }

\* DisplayList values the closure f may return, the empty list included.
DisplayLists == UNION { SeqsOfLen(Commands, n) : n \in 0..MaxLen }

\* cairo clip extents (f64 y1, y2) of a draw event.
RegionYs == {0, 90, 180}
Regions == { r \in RegionYs \X RegionYs : r[1] < r[2] }

\* Pointer positions (f64) delivered with motion and button events.
PointerXs == {0, 60, 90}
PointerYs == {0, 60, 120, 150}

\* All iteration orders of a HashMap holding the keys S.
Orders(S) ==
    { s \in [1..Cardinality(S) -> S] : \A i, j \in DOMAIN s : s[i] = s[j] => i = j }

\* ------------------------------------------------------------------ state
VARIABLES
    ankers,        \* ANKERS: HashMap<Rect, String>
    anker_log,     \* the keys of ANKERS in the order they were inserted
    font_desc,     \* FONT_DESC: the working pango font description
    size_request,  \* the drawing area's size request (width, height)
    status,        \* "running", or "panicked" once a handler has panicked
    ev             \* the last event handled: its inputs and what it emitted

vars == <<ankers, anker_log, font_desc, size_request, status, ev>>

\* An empty HashMap<Rect, String>.
EmptyMap == [r \in {} |-> ""]

\* A pango font description with no field set yet.
UnsetDesc == [size |-> 0, style |-> "Normal", weight |-> 400]

NoEvent ==
    [ kind |-> "none", items |-> <<>>, start_y |-> 0, end_y |-> 0,
      fail_at |-> 0, completed |-> TRUE,
      pre_ankers |-> EmptyMap, pre_height |-> 0,
      resizes |-> <<>>, draws |-> <<>>, entries |-> <<>>, calls |-> <<>>,
      x |-> 0, y |-> 0, order |-> <<>>,
      cursors |-> <<>>, navs |-> <<>>, repaints |-> 0 ]

Init ==
    /\ ankers = EmptyMap
    /\ anker_log = <<>>
    /\ font_desc = UnsetDesc
    /\ size_request = [width |-> DefaultWidth, height |-> DefaultHeight]
    /\ status = "running"
    /\ ev = NoEvent

\* ------------------------------------------------------- the draw handler
Max(a, b) == IF a >= b THEN a ELSE b
Min(a, b) == IF a <= b THEN a ELSE b

\* (variant) the cull test with Anker commands exempted from culling.
InRedrawRegionExceptAnker(cmd, redraw_start_y, redraw_end_y) ==
    LET rect_y == to_px(cmd.rect.y)
        rect_height == to_px(cmd.rect.height)
        sy == Max(rect_y, as_i32(redraw_start_y))
        ey == Min(rect_y + rect_height, as_i32(redraw_end_y))
    IN  cmd.kind = "Anker" \/ ey - sy > 0

\* (variant) the cull test accepting an empty intersection.
InRedrawRegionTouching(cmd, redraw_start_y, redraw_end_y) ==
    LET rect_y == to_px(cmd.rect.y)
        rect_height == to_px(cmd.rect.height)
        sy == Max(rect_y, as_i32(redraw_start_y))
        ey == Min(rect_y + rect_height, as_i32(redraw_end_y))
    IN  ey - sy >= 0

\* (variant) the cull test with the height rounded up to whole pixels.
InRedrawRegionCeilHeight(cmd, redraw_start_y, redraw_end_y) ==
    LET rect_y == to_px(cmd.rect.y)
        rect_height == ceil_to_px(cmd.rect.height)
        sy == Max(rect_y, as_i32(redraw_start_y))
        ey == Min(rect_y + rect_height, as_i32(redraw_end_y))
    IN  ey - sy > 0

\* The cull test of the draw loop: the command's pixel span against the
\* redraw region, both truncated to whole pixels.
InRedrawRegion(cmd, redraw_start_y, redraw_end_y) ==
    LET rect_y == to_px(cmd.rect.y)
        rect_height == to_px(cmd.rect.height)
        sy == Max(rect_y, as_i32(redraw_start_y))
        ey == Min(rect_y + rect_height, as_i32(redraw_end_y))
    IN  ey - sy > 0

\* (variant) the size request emitted without comparing with the current one.
DrawResizeAlways(items, request) ==
    IF items[1].kind = "SolidColor"
    THEN << ceil_to_px(items[1].rect.height) >>
    ELSE << >>

\* (variant) the size request taken from the first command whatever its kind.
DrawResizeAnyKind(items, request) ==
    IF request.height # ceil_to_px(items[1].rect.height)
    THEN << ceil_to_px(items[1].rect.height) >>
    ELSE << >>

\* (variant) the size request set to the height truncated to whole pixels.
DrawResizeTruncating(items, request) ==
    IF items[1].kind = "SolidColor"
       /\ request.height # ceil_to_px(items[1].rect.height)
    THEN << to_px(items[1].rect.height) >>
    ELSE << >>

\* The size requests the handler emits before the draw loop.
DrawResize(items, request) ==
    IF items[1].kind = "SolidColor"
       /\ request.height # ceil_to_px(items[1].rect.height)
    THEN << ceil_to_px(items[1].rect.height) >>
    ELSE << >>

\* (variant) HashMap::insert(rect, url): replaces an existing value.
InsertOverwriting(map, rect, url) ==
    [r \in DOMAIN map \cup {rect} |-> IF r = rect THEN url ELSE map[r]]

\* (variant) HashMap::entry(rect) alone: looks the key up, inserts nothing.
EntryWithoutInsert(map, rect, url) == map

\* (variant) the entry made in a map emptied first.
EntryIntoClearedMap(map, rect, url) == [r \in {rect} |-> url]

\* HashMap::entry(rect).or_insert_with(|| url): keeps an existing value.
EntryOrInsert(map, rect, url) ==
    IF rect \in DOMAIN map THEN map
    ELSE [r \in DOMAIN map \cup {rect} |-> IF r = rect THEN url ELSE map[r]]

\* (variant) render_item handing the layout the font description as it was
\* before this command's fields were written to it.
render_item_stale_font(acc, i, cmd, scaled) ==
    CASE cmd.kind = "SolidColor" ->
            [acc EXCEPT !.draws = Append(@, [idx |-> i, prim |-> "fill", font |-> UnsetDesc]),
                        !.calls = Append(@, [idx |-> i, prim |-> "fill"])]
      [] cmd.kind = "Image" ->
            IF scaled
            THEN [acc EXCEPT !.draws = Append(@, [idx |-> i, prim |-> "paint", font |-> UnsetDesc]),
                             !.calls = Append(@, [idx |-> i, prim |-> "paint"])]
            ELSE [acc EXCEPT !.ok = FALSE]
      [] cmd.kind = "Text" ->
            LET desc == [ size |-> px2pt_units(to_f64_px(cmd.font.size)),
                          style |-> to_pango_font_slant(cmd.font.slant),
                          weight |-> to_pango_font_weight(cmd.font.weight) ]
            IN  [acc EXCEPT !.font_desc = desc,
                            !.draws = Append(@, [idx |-> i, prim |-> "show_layout",
                                                 font |-> acc.font_desc]),
                            !.calls = Append(@, [idx |-> i, prim |-> "show_layout"])]
      [] cmd.kind = "Anker" ->
            [acc EXCEPT !.ankers = EntryOrInsert(@, cmd.rect, cmd.url),
                        !.anker_log = IF cmd.rect \in DOMAIN acc.ankers THEN @
                                      ELSE Append(@, cmd.rect),
                        !.entries = Append(@, i),
                        !.calls = Append(@, [idx |-> i, prim |-> "entry"])]

\* (variant) render_item leaving the weight of the font description as the
\* previous text command set it.
render_item_keep_weight(acc, i, cmd, scaled) ==
    CASE cmd.kind = "SolidColor" ->
            [acc EXCEPT !.draws = Append(@, [idx |-> i, prim |-> "fill", font |-> UnsetDesc]),
                        !.calls = Append(@, [idx |-> i, prim |-> "fill"])]
      [] cmd.kind = "Image" ->
            IF scaled
            THEN [acc EXCEPT !.draws = Append(@, [idx |-> i, prim |-> "paint", font |-> UnsetDesc]),
                             !.calls = Append(@, [idx |-> i, prim |-> "paint"])]
            ELSE [acc EXCEPT !.ok = FALSE]
      [] cmd.kind = "Text" ->
            LET desc == [ size |-> px2pt_units(to_f64_px(cmd.font.size)),
                          style |-> to_pango_font_slant(cmd.font.slant),
                          weight |-> acc.font_desc.weight ]
            IN  [acc EXCEPT !.font_desc = desc,
                            !.draws = Append(@, [idx |-> i, prim |-> "show_layout", font |-> desc]),
                            !.calls = Append(@, [idx |-> i, prim |-> "show_layout"])]
      [] cmd.kind = "Anker" ->
            [acc EXCEPT !.ankers = EntryOrInsert(@, cmd.rect, cmd.url),
                        !.anker_log = IF cmd.rect \in DOMAIN acc.ankers THEN @
                                      ELSE Append(@, cmd.rect),
                        !.entries = Append(@, i),
                        !.calls = Append(@, [idx |-> i, prim |-> "entry"])]

\* render_item on command i of the list.  acc carries the tables the pass
\* works on and the calls made so far (draws: the draw primitives, entries:
\* the ANKERS.entry calls, calls: both, with the size request, in the order
\* made); scaled = FALSE when scale_simple returns no image, on which the
\* unwrap panics.
render_item(acc, i, cmd, scaled) ==
    CASE cmd.kind = "SolidColor" ->
            [acc EXCEPT !.draws = Append(@, [idx |-> i, prim |-> "fill", font |-> UnsetDesc]),
                        !.calls = Append(@, [idx |-> i, prim |-> "fill"])]
      [] cmd.kind = "Image" ->
            IF scaled
            THEN [acc EXCEPT !.draws = Append(@, [idx |-> i, prim |-> "paint", font |-> UnsetDesc]),
                             !.calls = Append(@, [idx |-> i, prim |-> "paint"])]
            ELSE [acc EXCEPT !.ok = FALSE]
      [] cmd.kind = "Text" ->
            LET desc == [ size |-> px2pt_units(to_f64_px(cmd.font.size)),
                          style |-> to_pango_font_slant(cmd.font.slant),
                          weight |-> to_pango_font_weight(cmd.font.weight) ]
            IN  [acc EXCEPT !.font_desc = desc,
                            !.draws = Append(@, [idx |-> i, prim |-> "show_layout", font |-> desc]),
                            !.calls = Append(@, [idx |-> i, prim |-> "show_layout"])]
      [] cmd.kind = "Anker" ->
            [acc EXCEPT !.ankers = EntryOrInsert(@, cmd.rect, cmd.url),
                        !.anker_log = IF cmd.rect \in DOMAIN acc.ankers THEN @
                                      ELSE Append(@, cmd.rect),
                        !.entries = Append(@, i),
                        !.calls = Append(@, [idx |-> i, prim |-> "entry"])]

\* (variant) the draw loop going on after a render_item has failed.
RECURSIVE RenderFromPastFailure(_, _, _, _, _, _)
RenderFromPastFailure(acc, items, i, redraw_start_y, redraw_end_y, fail_at) ==
    IF i > Len(items) THEN acc
    ELSE RenderFromPastFailure(
            IF InRedrawRegion(items[i], redraw_start_y, redraw_end_y)
            THEN render_item(acc, i, items[i], i # fail_at)
            ELSE acc,
            items, i + 1, redraw_start_y, redraw_end_y, fail_at)

\* (variant) the draw loop walking the list from its last command.
RECURSIVE RenderFromLast(_, _, _, _, _, _)
RenderFromLast(acc, items, i, redraw_start_y, redraw_end_y, fail_at) ==
    IF i > Len(items) \/ ~acc.ok THEN acc
    ELSE RenderFromLast(
            IF InRedrawRegion(items[Len(items) + 1 - i], redraw_start_y, redraw_end_y)
            THEN render_item(acc, Len(items) + 1 - i, items[Len(items) + 1 - i],
                             Len(items) + 1 - i # fail_at)
            ELSE acc,
            items, i + 1, redraw_start_y, redraw_end_y, fail_at)

\* The draw loop from command i on; it ends where a render_item panics.
RECURSIVE RenderFrom(_, _, _, _, _, _)
RenderFrom(acc, items, i, redraw_start_y, redraw_end_y, fail_at) ==
    IF i > Len(items) \/ ~acc.ok THEN acc
    ELSE RenderFrom(
            IF InRedrawRegion(items[i], redraw_start_y, redraw_end_y)
            THEN render_item(acc, i, items[i], i # fail_at)
            ELSE acc,
            items, i + 1, redraw_start_y, redraw_end_y, fail_at)

\* connect_draw closure: one draw event over the list f returned, with clip
\* extents (redraw_start_y, redraw_end_y); fail_at is the command, if any,
\* for which the image backend returns no image.  items[0] panics on an
\* empty list, before anything else happens.
Draw(items, redraw_start_y, redraw_end_y, fail_at) ==
    /\ IF items = << >>
       THEN /\ status' = "panicked"
            /\ ev' = [NoEvent EXCEPT !.kind = "draw", !.items = items,
                                      !.start_y = redraw_start_y, !.end_y = redraw_end_y,
                                      !.fail_at = fail_at,
                                      !.completed = FALSE,
                                      !.pre_ankers = ankers,
                                      !.pre_height = size_request.height]
            /\ UNCHANGED <<ankers, anker_log, font_desc, size_request>>
       ELSE \E resizes \in { DrawResize(items, size_request) } :
            \E acc \in { RenderFrom(
                            [ ankers |-> ankers, anker_log |-> anker_log,
                              font_desc |-> font_desc, draws |-> << >>,
                              entries |-> << >>,
                              calls |-> [k \in DOMAIN resizes |->
                                            [idx |-> 0, prim |-> "set_size_request"]],
                              ok |-> TRUE ],
                            items, 1, redraw_start_y, redraw_end_y, fail_at) } :
                /\ size_request' = IF resizes = << >> THEN size_request
                                   ELSE [width |-> -1, height |-> resizes[1]]
                /\ ankers' = acc.ankers
                /\ anker_log' = acc.anker_log
                /\ font_desc' = acc.font_desc
                /\ status' = IF acc.ok THEN "running" ELSE "panicked"
                /\ ev' = [NoEvent EXCEPT !.kind = "draw", !.items = items,
                                          !.start_y = redraw_start_y, !.end_y = redraw_end_y,
                                          !.fail_at = fail_at,
                                          !.completed = acc.ok,
                                          !.pre_ankers = ankers,
                                          !.pre_height = size_request.height,
                                          !.resizes = resizes,
                                          !.draws = acc.draws,
                                          !.entries = acc.entries,
                                          !.calls = acc.calls]

\* A draw event: the host picks the clip extents, the layout engine the
\* list, the image backend for which of the images it is asked to scale, if
\* any, it returns no image.  No event reaches a process that has panicked.
DrawEvent ==
    /\ status = "running"
    /\ \E items \in DisplayLists, region \in Regions :
          \E fail_at \in {0} \cup { i \in DOMAIN items :
                                        /\ items[i].kind = "Image"
                                        /\ InRedrawRegion(items[i], region[1], region[2]) } :
              Draw(items, region[1], region[2], fail_at)

\* --------------------------------------------------- the pointer handlers
\* (variant) the containment test with the far edges excluded.
ContainsHalfOpen(rect, x, y) ==
    /\ to_f64_px(rect.x) <= x
    /\ x < to_f64_px(rect.x) + to_f64_px(rect.width)
    /\ to_f64_px(rect.y) <= y
    /\ y < to_f64_px(rect.y) + to_f64_px(rect.height)

\* The containment test both handlers apply to an entry of ANKERS.
Contains(rect, x, y) ==
    /\ to_f64_px(rect.x) <= x
    /\ x <= to_f64_px(rect.x) + to_f64_px(rect.width)
    /\ to_f64_px(rect.y) <= y
    /\ y <= to_f64_px(rect.y) + to_f64_px(rect.height)

\* (variant) the motion handler setting no cursor when nothing is hit.
MotionCursorOnHitOnly(map, x, y) ==
    IF \E rect \in DOMAIN map :
          /\ to_f64_px(rect.x) <= x
          /\ x <= to_f64_px(rect.x) + to_f64_px(rect.width)
          /\ to_f64_px(rect.y) <= y
          /\ y <= to_f64_px(rect.y) + to_f64_px(rect.height)
    THEN << "Hand1" >>
    ELSE << >>

\* The cursors the motion handler sets on the window, in order: Hand1 when
\* any entry contains the point, LeftPtr otherwise.
MotionCursor(map, x, y) ==
    IF \E rect \in DOMAIN map : Contains(rect, x, y)
    THEN << "Hand1" >>
    ELSE << "LeftPtr" >>

\* motion-notify-event handler.
Motion(x, y) ==
    /\ ev' = [NoEvent EXCEPT !.kind = "motion", !.x = x, !.y = y,
                              !.pre_ankers = ankers,
                              !.pre_height = size_request.height,
                              !.cursors = MotionCursor(ankers, x, y)]
    /\ UNCHANGED <<ankers, anker_log, font_desc, size_request, status>>

MotionEvent ==
    /\ status = "running"
    /\ \E x \in PointerXs, y \in PointerYs : Motion(x, y)

\* (variant) the press handler's scan without the break at the first hit.
RECURSIVE PressScanNoBreak(_, _, _, _, _)
PressScanNoBreak(map, order, i, x, y) ==
    IF i > Len(order) THEN << >>
    ELSE IF /\ to_f64_px(order[i].x) <= x
            /\ x <= to_f64_px(order[i].x) + to_f64_px(order[i].width)
            /\ to_f64_px(order[i].y) <= y
            /\ y <= to_f64_px(order[i].y) + to_f64_px(order[i].height)
         THEN << map[order[i]] >> \o PressScanNoBreak(map, order, i + 1, x, y)
         ELSE PressScanNoBreak(map, order, i + 1, x, y)

\* (variant) the press handler's scan testing the far edges exclusively.
RECURSIVE PressScanHalfOpen(_, _, _, _, _)
PressScanHalfOpen(map, order, i, x, y) ==
    IF i > Len(order) THEN << >>
    ELSE IF /\ to_f64_px(order[i].x) <= x
            /\ x < to_f64_px(order[i].x) + to_f64_px(order[i].width)
            /\ to_f64_px(order[i].y) <= y
            /\ y < to_f64_px(order[i].y) + to_f64_px(order[i].height)
         THEN << map[order[i]] >>
         ELSE PressScanHalfOpen(map, order, i + 1, x, y)

\* The press handler's scan over ANKERS in iteration order `order`, from
\* position i: the urls passed to update_html_tree_and_stylesheet, each
\* followed by one queue_draw; the scan breaks at the first hit.
RECURSIVE PressScan(_, _, _, _, _)
PressScan(map, order, i, x, y) ==
    IF i > Len(order) THEN << >>
    ELSE IF Contains(order[i], x, y) THEN << map[order[i]] >>
    ELSE PressScan(map, order, i + 1, x, y)

\* (variant) the press handler emptying ANKERS when it navigates.
PressClearingIndex(x, y, order) ==
    /\ \E navs \in { PressScan(ankers, order, 1, x, y) } :
           /\ ev' = [NoEvent EXCEPT !.kind = "press", !.x = x, !.y = y,
                                    !.order = order,
                                    !.pre_ankers = ankers,
                                    !.pre_height = size_request.height,
                                    !.navs = navs,
                                    !.repaints = Len(navs)]
           /\ ankers' = IF navs = << >> THEN ankers ELSE EmptyMap
           /\ anker_log' = IF navs = << >> THEN anker_log ELSE << >>
    /\ UNCHANGED <<font_desc, size_request, status>>

\* button-press-event handler; order is the HashMap's iteration order.
Press(x, y, order) ==
    /\ \E navs \in { PressScan(ankers, order, 1, x, y) } :
           ev' = [NoEvent EXCEPT !.kind = "press", !.x = x, !.y = y,
                                 !.order = order,
                                 !.pre_ankers = ankers,
                                 !.pre_height = size_request.height,
                                 !.navs = navs,
                                 !.repaints = Len(navs)]
    /\ UNCHANGED <<ankers, anker_log, font_desc, size_request, status>>

PressEvent ==
    /\ status = "running"
    /\ \E x \in PointerXs, y \in PointerYs :
          \E order \in Orders(DOMAIN ankers) : Press(x, y, order)

Next == DrawEvent \/ MotionEvent \/ PressEvent

Spec == Init /\ [][Next]_vars

TypeOK ==
    /\ status \in {"running", "panicked"}
    /\ DOMAIN ankers = { anker_log[i] : i \in DOMAIN anker_log }

\* ============================================================ properties
\* What the properties say about the last event, in the words of the
\* specification rather than of the handlers.

\* The pixel rows of a command's vertical span [rect_y, rect_y + rect_h).
SpanRows(cmd) ==
    to_px(cmd.rect.y) .. (to_px(cmd.rect.y) + to_px(cmd.rect.height) - 1)

\* The pixel rows of the redraw region [start_y, end_y) of event e.
RegionRows(e) == as_i32(e.start_y) .. (as_i32(e.end_y) - 1)

\* The command's span intersects the redraw region of event e.
Intersects(cmd, e) == SpanRows(cmd) \cap RegionRows(e) # {}

IsDrawing(cmd) == cmd.kind \in {"SolidColor", "Image", "Text"}

\* How often the draw primitive of command i was invoked in event e.
DrawCount(e, i) == Cardinality({ k \in DOMAIN e.draws : e.draws[k].idx = i })

\* The point (x, y) lies in rect, all four bounds included.
Inside(rect, x, y) ==
    /\ rect.x <= x /\ x <= rect.x + rect.width
    /\ rect.y <= y /\ y <= rect.y + rect.height

\* The least whole number of pixels that covers the length au.
CeilPx(au) == CHOOSE n \in 0..(au + 1) : n * AU_PER_PX >= au /\ (n - 1) * AU_PER_PX < au

DrawPass == ev.kind = "draw"
CompletedPass == ev.kind = "draw" /\ ev.completed

C3_EmptyListIsNoOp ==
    (DrawPass /\ ev.items = << >>) =>
        /\ ev.completed
        /\ status = "running"
        /\ ev.resizes = << >>
        /\ ev.draws = << >>
        /\ ankers = ev.pre_ankers

\* ------------------------------------------------------------------- C4
\* The rectangle inserted earliest among the indexed ones containing (x, y).
EarliestInserted(x, y) ==
    anker_log[CHOOSE i \in DOMAIN anker_log :
                /\ Inside(anker_log[i], x, y)
                /\ \A j \in 1..(i - 1) : ~Inside(anker_log[j], x, y)]

\* C4: when several indexed rectangles contain the pressed point, the press
\* navigates to the url of the one inserted into the index earliest.
C4_PressNavigatesToEarliestInserted ==
    (ev.kind = "press" /\ \E r \in DOMAIN ankers : Inside(r, ev.x, ev.y)) =>
        ev.navs = << ankers[EarliestInserted(ev.x, ev.y)] >>

\* ------------------------------------------------------------------- C5
\* The first Anchor command of event e, among those processed, that names rect.
FirstEntryFor(e, rect) ==
    e.items[e.entries[CHOOSE k \in DOMAIN e.entries :
                /\ e.items[e.entries[k]].rect = rect
                /\ \A m \in 1..(k - 1) : e.items[e.entries[m]].rect # rect]].url

\* C5: anchor registration is first-writer-wins.  A rectangle registered
\* before a pass keeps its url through the pass, whatever Anchor commands
\* the pass processes for it, and a rectangle first registered in the pass
\* resolves to the url of the first Anchor command processed for it.
C5_FirstWriterWins ==
    DrawPass =>
        /\ \A r \in DOMAIN ev.pre_ankers :
              r \in DOMAIN ankers /\ ankers[r] = ev.pre_ankers[r]
        /\ \A k \in DOMAIN ev.entries :
              LET rect == ev.items[ev.entries[k]].rect
              IN  /\ rect \in DOMAIN ankers
                  /\ rect \notin DOMAIN ev.pre_ankers =>
                        ankers[rect] = FirstEntryFor(ev, rect)

\* A pass that processed an Anchor command for a rectangle that an earlier
\* pass had registered with another url, and one for a rectangle that an
\* earlier command of the same pass had registered with another url.
C5_Witness ==
    /\ DrawPass
    /\ \E k \in DOMAIN ev.entries :
          LET cmd == ev.items[ev.entries[k]]
          IN  /\ cmd.rect \in DOMAIN ev.pre_ankers
              /\ cmd.url # ev.pre_ankers[cmd.rect]
              /\ ankers[cmd.rect] = ev.pre_ankers[cmd.rect]

\* A pass whose second Anchor command names the rectangle its first one has
\* just registered, with another url.
C5_WitnessSamePass ==
    /\ DrawPass
    /\ \E k, m \in DOMAIN ev.entries :
          /\ k < m
          /\ ev.items[ev.entries[k]].rect = ev.items[ev.entries[m]].rect
          /\ ev.items[ev.entries[k]].url # ev.items[ev.entries[m]].url
          /\ ev.items[ev.entries[k]].rect \notin DOMAIN ev.pre_ankers
          /\ ankers[ev.items[ev.entries[k]].rect] = ev.items[ev.entries[k]].url

\* ------------------------------------------------------------------- C6
\* C6: hit testing is inclusive on all four bounds, in both handlers: a
\* motion event signals the hand cursor, and a press event navigates,
\* exactly when some indexed rectangle has rect.x <= px <= rect.x + width
\* and rect.y <= py <= rect.y + height.
C6_HitTestInclusive ==
    /\ ev.kind = "motion" =>
          (ev.cursors = << "Hand1" >> <=> \E r \in DOMAIN ankers : Inside(r, ev.x, ev.y))
    /\ ev.kind = "press" =>
          (ev.navs # << >> <=> \E r \in DOMAIN ankers : Inside(r, ev.x, ev.y))

\* A press on the far corner of the only indexed rectangle containing the
\* point: a hit that rests on the inclusive right and bottom bounds.
C6_Witness ==
    /\ ev.kind = "press"
    /\ ev.navs # << >>
    /\ \A r \in DOMAIN ankers :
          Inside(r, ev.x, ev.y) =>
              ev.x = r.x + r.width /\ ev.y = r.y + r.height

\* ------------------------------------------------------------------- C7
\* C7: when the first command is SolidColor with height H, the pass emits
\* exactly one resize request, with value ceil_to_px(H), if the requested
\* height differed from ceil_to_px(H) before the pass, and none otherwise.
C7_ResizeEmission ==
    (DrawPass /\ ev.items # << >> /\ ev.items[1].kind = "SolidColor") =>
        ev.resizes = IF ev.pre_height # CeilPx(ev.items[1].rect.height)
                     THEN << CeilPx(ev.items[1].rect.height) >>
                     ELSE << >>

\* A pass over a list that starts with a SolidColor whose height is already
\* the requested one: no resize request.
C7_Witness ==
    /\ DrawPass /\ ev.items # << >> /\ ev.items[1].kind = "SolidColor"
    /\ ev.pre_height = CeilPx(ev.items[1].rect.height)
    /\ ev.pre_height # to_px(ev.items[1].rect.height)
    /\ ev.resizes = << >>

\* ------------------------------------------------------------------- C8
\* The next event is a render pass over the display list and the redraw
\* region of the pass just handled.
SamePassAgain ==
    /\ ev.kind = "draw" /\ ev'.kind = "draw"
    /\ ev'.items = ev.items
    /\ ev'.start_y = ev.start_y /\ ev'.end_y = ev.end_y

HitPositions(e) == { i \in DOMAIN e.order : Inside(e.order[i], e.x, e.y) }

FirstHit(e) == CHOOSE i \in HitPositions(e) : \A j \in HitPositions(e) : i <= j

\* C9: a press that hits emits exactly one navigation request, for the url
\* of the first matching rectangle in iteration order, and exactly one
\* repaint request, however many rectangles match; a press that misses
\* emits neither.
C9_PressEmitsOnceForFirstHit ==
    ev.kind = "press" =>
        /\ Len(ev.order) = Cardinality(DOMAIN ankers)
        /\ { ev.order[i] : i \in DOMAIN ev.order } = DOMAIN ankers
        /\ IF HitPositions(ev) # {}
           THEN /\ ev.navs = << ankers[ev.order[FirstHit(ev)]] >>
                /\ ev.repaints = 1
           ELSE /\ ev.navs = << >>
                /\ ev.repaints = 0

\* A press on a point that two indexed rectangles with different urls contain.
C9_Witness ==
    /\ ev.kind = "press"
    /\ \E i, j \in HitPositions(ev) :
          i < j /\ ankers[ev.order[i]] # ankers[ev.order[j]]
    /\ Len(ev.navs) = 1

\* ------------------------------------------------------------------ C10
\* C10: a motion event emits exactly one cursor signal: the hand when some
\* rectangle in the Anchor Index contains the point, the arrow otherwise.
C10_MotionSignalsOnce ==
    ev.kind = "motion" =>
        /\ Len(ev.cursors) = 1
        /\ ev.cursors[1] = IF \E r \in DOMAIN ankers : Contains(r, ev.x, ev.y)
                           THEN "Hand1" ELSE "LeftPtr"

\* A motion event over a point outside every rectangle of a non-empty index.
C10_Witness ==
    /\ ev.kind = "motion"
    /\ ankers # EmptyMap
    /\ ev.cursors = << "LeftPtr" >>

\* ------------------------------------------------------------------ C11
\* The event just handled was a render pass that ran to its end and the
\* next one is a button press.
PressAfterPass == ev.kind = "draw" /\ ev.completed /\ ev'.kind = "press"

\* Command i of the pass is an Anchor whose span meets the redraw region,
\* whose rectangle holds the point of the press, and no other indexed
\* rectangle holds that point.
OnlyAnchorUnderPress(i) ==
    /\ ev.items[i].kind = "Anker"
    /\ Intersects(ev.items[i], ev)
    /\ Inside(ev.items[i].rect, ev'.x, ev'.y)
    /\ \A r \in DOMAIN ankers \ {ev.items[i].rect} : ~Inside(r, ev'.x, ev'.y)

\* Command i is the first to have registered its rectangle: no earlier pass
\* and no earlier command of the pass registered it with another url.
NotRegisteredOtherwise(i) ==
    /\ ev.items[i].rect \in DOMAIN ev.pre_ankers
          => ev.pre_ankers[ev.items[i].rect] = ev.items[i].url
    /\ \A j \in 1..(i - 1) :
          (/\ ev.items[j].kind = "Anker"
           /\ ev.items[j].rect = ev.items[i].rect
           /\ Intersects(ev.items[j], ev)) => ev.items[j].url = ev.items[i].url

\* C11 as stated: after a render pass over a list with Anchor(url, rect)
\* whose span intersects the redraw region, a press inside rect (no other
\* indexed rectangle holding the point) navigates to exactly that url.
C11_PressNavigatesToPassUrl ==
    [][PressAfterPass =>
          \A i \in DOMAIN ev.items :
              OnlyAnchorUnderPress(i) => ev'.navs = << ev.items[i].url >>]_vars

\* C11 amended: the press navigates to the url of the command provided the
\* rectangle was not registered before, by an earlier pass or an earlier
\* command of the pass, with a different url.
C11_PressNavigatesToPassUrlIfFirstWriter ==
    [][PressAfterPass =>
          \A i \in DOMAIN ev.items :
              (OnlyAnchorUnderPress(i) /\ NotRegisteredOtherwise(i))
                  => ev'.navs = << ev.items[i].url >>]_vars

\* A press that navigated, with exactly one indexed rectangle under the
\* pointer and a second rectangle in the index that does not hold the point.
C11_Witness ==
    /\ ev.kind = "press" /\ Len(ev.navs) = 1
    /\ Cardinality({ r \in DOMAIN ankers : Inside(r, ev.x, ev.y) }) = 1
    /\ Cardinality(DOMAIN ankers) = 2

\* ------------------------------------------------------------------ C12
\* C12: the Anchor Index only grows; an entry once present is present with
\* the same url in every later state.
C12_IndexOnlyGrows ==
    [][\A r \in DOMAIN ankers : r \in DOMAIN ankers' /\ ankers'[r] = ankers[r]]_vars

\* A pass that ran to its end over a list that names none of the rectangles
\* indexed before it, added one, and left the earlier entries in place.
C12_Witness ==
    /\ CompletedPass
    /\ DOMAIN ev.pre_ankers # {}
    /\ \A i \in DOMAIN ev.items : ev.items[i].rect \notin DOMAIN ev.pre_ankers
    /\ DOMAIN ankers # DOMAIN ev.pre_ankers
    /\ \A r \in DOMAIN ev.pre_ankers : r \in DOMAIN ankers

\* ------------------------------------------------------------------ C13
\* C13: when the scaling of an image fails during a pass, the pass is
\* aborted there: the image is not drawn, nothing after it in the list is
\* drawn or registered, and the process is halted.
C13_ScaleFailureAbortsPass ==
    (DrawPass /\ ev.fail_at # 0) =>
        /\ ~ev.completed
        /\ status = "panicked"
        /\ \A k \in DOMAIN ev.calls : ev.calls[k].idx < ev.fail_at
        /\ \A k \in DOMAIN ev.draws : ev.draws[k].idx < ev.fail_at
        /\ \A k \in DOMAIN ev.entries : ev.entries[k] < ev.fail_at
        /\ DOMAIN ankers \subseteq
              DOMAIN ev.pre_ankers \cup
                  { ev.items[j].rect : j \in 1..(ev.fail_at - 1) }

\* An aborted pass with a command after the failing image whose span meets
\* the redraw region.
C13_Witness ==
    /\ DrawPass /\ ev.fail_at # 0
    /\ \E j \in DOMAIN ev.items : j > ev.fail_at /\ Intersects(ev.items[j], ev)

\* ------------------------------------------------------------------ C14
\* The calls of the pass of event e that follow position k.
NoResizeFrom(e, k) ==
    \A m \in DOMAIN e.calls : m >= k => e.calls[m].prim # "set_size_request"

\* C14 as stated: for every non-empty list the required height is taken
\* from the first command, whatever its kind, and if it differs from the
\* requested height the resize request is emitted before any draw primitive.
C14_HeightFromFirstCommand ==
    (DrawPass /\ ev.items # << >>
        /\ ev.pre_height # CeilPx(ev.items[1].rect.height)) =>
        /\ ev.resizes = << CeilPx(ev.items[1].rect.height) >>
        /\ ev.calls # << >>
        /\ ev.calls[1].prim = "set_size_request"

\* C14 amended: the height is taken from the first command only when it is
\* a SolidColor, and the resize request then precedes every draw primitive
\* of the pass; a first command of another kind yields no resize request.
C14_HeightFromFirstSolidColor ==
    (DrawPass /\ ev.items # << >>) =>
        IF /\ ev.items[1].kind = "SolidColor"
           /\ ev.pre_height # CeilPx(ev.items[1].rect.height)
        THEN /\ ev.calls # << >>
             /\ ev.calls[1].prim = "set_size_request"
             /\ NoResizeFrom(ev, 2)
             /\ size_request.height = CeilPx(ev.items[1].rect.height)
        ELSE /\ NoResizeFrom(ev, 1)
             /\ size_request.height = ev.pre_height

\* A pass over a list that starts with a SolidColor: the resize request is
\* the first call and the fill of that command the second.
C14_Witness ==
    /\ DrawPass /\ ev.items # << >>
    /\ ev.items[1].kind = "SolidColor"
    /\ Len(ev.calls) >= 2
    /\ ev.calls[1].prim = "set_size_request"
    /\ ev.calls[2].prim = "fill"

\* A pass over a list whose first command is no SolidColor and has another
\* height than the requested one: it drew, and requested no resize.
C14_WitnessOtherKind ==
    /\ DrawPass /\ ev.items # << >>
    /\ ev.items[1].kind # "SolidColor"
    /\ ev.pre_height # CeilPx(ev.items[1].rect.height)
    /\ ev.draws # << >>

\* ------------------------------------------------------------------ C15
\* C15: the renderer is the only writer of the Anchor Index; pointer
\* handlers leave it as it was, and a pass changes it only by the entry
\* calls it makes.
C15_RendererIsOnlyWriter ==
    /\ ev.kind \in {"motion", "press"} => ankers = ev.pre_ankers
    /\ ankers # ev.pre_ankers =>
          /\ DrawPass
          /\ \E k \in DOMAIN ev.entries :
                ev.items[ev.entries[k]].rect \notin DOMAIN ev.pre_ankers
    /\ DrawPass => DOMAIN ankers =
          DOMAIN ev.pre_ankers \cup
              { ev.items[ev.entries[k]].rect : k \in DOMAIN ev.entries }

\* A press that navigated and left a non-empty index as it was.
C15_Witness ==
    /\ ev.kind = "press" /\ ev.navs # << >>
    /\ ankers # EmptyMap /\ ankers = ev.pre_ankers

\* ------------------------------------------------------------------ C16
\* The font description render_item is to draw command cmd with.
DescOf(cmd) ==
    [ size |-> px2pt_units(to_f64_px(cmd.font.size)),
      style |-> to_pango_font_slant(cmd.font.slant),
      weight |-> to_pango_font_weight(cmd.font.weight) ]

\* C16: every text draw uses a font description whose size, slant and
\* weight are those of the command's own font.
C16_TextDrawnWithOwnFont ==
    DrawPass =>
        \A k \in DOMAIN ev.draws :
            ev.draws[k].prim = "show_layout" =>
                /\ ev.draws[k].font.size = DescOf(ev.items[ev.draws[k].idx]).size
                /\ ev.draws[k].font.style = DescOf(ev.items[ev.draws[k].idx]).style
                /\ ev.draws[k].font.weight = DescOf(ev.items[ev.draws[k].idx]).weight

\* A pass that drew two texts whose fonts differ in size, slant and weight.
C16_Witness ==
    /\ DrawPass /\ Len(ev.draws) = 2
    /\ ev.draws[1].prim = "show_layout" /\ ev.draws[2].prim = "show_layout"
    /\ ev.draws[1].font.size # ev.draws[2].font.size
    /\ ev.draws[1].font.style # ev.draws[2].font.style
    /\ ev.draws[1].font.weight # ev.draws[2].font.weight

\* ------------------------------------------------------------------ C17
\* The members of a finite set of integers in ascending order.
RECURSIVE Ascending(_)
Ascending(S) ==
    IF S = {} THEN << >>
    ELSE LET m == CHOOSE m \in S : \A n \in S : m <= n
         IN  << m >> \o Ascending(S \ {m})

\* The list positions of the calls render_item made in event e, in the
\* order they were made.
RenderedPositions(e) ==
    LET made == SelectSeq(e.calls, LAMBDA c : c.prim # "set_size_request")
    IN  [k \in DOMAIN made |-> made[k].idx]

\* The list positions of event e whose span meets the redraw region.
NonCulled(e) == { i \in DOMAIN e.items : Intersects(e.items[i], e) }

\* C17 as stated: the draw and registration calls of a pass are exactly the
\* non-culled commands of the list, in list order.
C17_CallsAreNonCulledInOrder ==
    DrawPass => RenderedPositions(ev) = Ascending(NonCulled(ev))

\* C17 amended: the calls are the non-culled commands in list order, up to
\* but not including the image whose scaling failed, if one did.
C17_CallsAreNonCulledInOrderUntilFailure ==
    DrawPass =>
        RenderedPositions(ev) =
            Ascending({ i \in NonCulled(ev) : ev.fail_at = 0 \/ i < ev.fail_at })

\* A pass that ran to its end and drew two different overlapping commands,
\* the later of the list after the earlier.
C17_Witness ==
    /\ CompletedPass /\ Len(ev.items) = 2
    /\ ev.items[1] # ev.items[2]
    /\ IsDrawing(ev.items[1]) /\ IsDrawing(ev.items[2])
    /\ SpanRows(ev.items[1]) \cap SpanRows(ev.items[2]) # {}
    /\ RenderedPositions(ev) = << 1, 2 >>

\* ------------------------------------------------------------------ C18
\* A motion event followed by a press at the same pointer position.
PressWhereMotionWas ==
    /\ ev.kind = "motion" /\ ev'.kind = "press"
    /\ ev'.x = ev.x /\ ev'.y = ev.y

\* C18: motion and press agree on the hit test; the press navigates exactly
\* when the motion at that position showed the hand cursor.
C18_MotionAndPressAgree ==
    [][PressWhereMotionWas =>
          (ev.cursors = << "Hand1" >> <=> ev'.navs # << >>)]_vars

\* A press that navigated with the pointer on the far corner of an indexed
\* rectangle, where the motion handler shows the hand cursor.
C18_Witness ==
    /\ ev.kind = "press" /\ ev.navs # << >>
    /\ MotionCursor(ankers, ev.x, ev.y) = << "Hand1" >>
    /\ \E r \in DOMAIN ankers :
          /\ Inside(r, ev.x, ev.y)
          /\ ev.x = r.x + r.width /\ ev.y = r.y + r.height

\* ------------------------------------------------------------------ C19
\* C19: the resize converges; after a pass over a list whose first command
\* is a SolidColor the requested height is the required one, a pass that
\* finds it so emits nothing, and pointer events leave the request alone.
C19_ResizeConverges ==
    /\ (DrawPass /\ ev.items # << >> /\ ev.items[1].kind = "SolidColor") =>
          /\ size_request.height = CeilPx(ev.items[1].rect.height)
          /\ Len(ev.resizes) <= 1
          /\ ev.pre_height = size_request.height => ev.resizes = << >>
    /\ ev.kind \in {"motion", "press"} =>
          size_request.height = ev.pre_height

\* A pass over a list that starts with a SolidColor, after an earlier pass
\* has set the request to the required height: no further request.
C19_Witness ==
    /\ DrawPass /\ ev.items # << >> /\ ev.items[1].kind = "SolidColor"
    /\ size_request.width = -1
    /\ size_request.height = CeilPx(ev.items[1].rect.height)
    /\ size_request.height # to_px(ev.items[1].rect.height)
    /\ ev.pre_height = size_request.height
    /\ ev.resizes = << >> /\ ev.draws # << >>

\* ------------------------------------------------------------------ C20
\* The height of the command's rectangle truncates to no whole pixel.
ZeroPxHigh(cmd) == to_px(cmd.rect.height) = 0

\* C20: a command whose height truncates to 0 pixels is culled in every
\* pass whatever the redraw region, and so an Anchor of such a height is
\* never in the index.
C20_ZeroHeightAlwaysCulled ==
    /\ DrawPass =>
          \A i \in DOMAIN ev.items :
              ZeroPxHigh(ev.items[i]) =>
                  /\ \A k \in DOMAIN ev.calls : ev.calls[k].idx # i
                  /\ DrawCount(ev, i) = 0
    /\ \A r \in DOMAIN ankers : to_px(r.height) # 0

\* A pass that ran to its end over a list with an Anchor half a pixel high
\* whose row lies in the redraw region; its rectangle is not indexed.
C20_Witness ==
    /\ CompletedPass
    /\ \E i \in DOMAIN ev.items :
          /\ ev.items[i].kind = "Anker" /\ ZeroPxHigh(ev.items[i])
          /\ ev.items[i].rect.height > 0
          /\ to_px(ev.items[i].rect.y) \in RegionRows(ev)
          /\ ev.items[i].rect \notin DOMAIN ankers

====
